---- MODULE Spec2Model ----
(***************************************************************************)
(* Query understanding (modules_annexes/query_understanding.py) and        *)
(* retrieval metrics (modules_annexes/metrics.py) of the legal retrieval   *)
(* benchmark.                                                              *)
(*                                                                         *)
(* A Python str is a sequence of characters; a character is a one-token    *)
(* string.  Every function of the source is an operator computed the way   *)
(* the source computes it; a call is one atomic step (the code is          *)
(* synchronous), recorded in op / args / ret.                              *)
(***************************************************************************)
EXTENDS Integers, Sequences, FiniteSets, TLC

VARIABLES dictionary, pc, op, args, ret

vars == <<dictionary, pc, op, args, ret>>

(***************************************************************************)
(* Bounds of the model.                                                    *)
(***************************************************************************)
\* longest query / text handed to the query-understanding functions
MaxLen == 3

\* longest ranked list
MaxResults == 3

\* most keywords (or article prefixes) in an oracle specification
MaxKeywords == 2

\* the window k ranges over -NegK .. MaxK
MaxK == 4

NegK == 2

\* Python's None
None == "None"

(***************************************************************************)
(* Characters and the str methods the code uses.                           *)
(***************************************************************************)
\* the characters queries are built from: two lowercase letters, an
\* uppercase letter, a character outside the regex class, two whitespaces
Alphabet == {"a", "b", "A", "-", " ", "\t"}

\* str.lower() on one character
LowerChar(c) ==
    CASE c = "A" -> "a"
      [] c = "B" -> "b"
      [] OTHER -> c

\* str.lower()
lower(s) == [i \in 1..Len(s) |-> LowerChar(s[i])]

\* the letters of the class [a-z...] of the first regex ("a" and "b" stand
\* for all of them)
IsClassLetter(c) == c \in {"a", "b"}

\* \s
IsSpace(c) == c \in {" ", "\t"}

\* re.sub(r"[^a-z...\s]", " ", text)
SubSpecials(s) ==
    [i \in 1..Len(s) |->
        IF IsClassLetter(s[i]) \/ IsSpace(s[i]) THEN s[i] ELSE " "]

\* re.sub(r"\s+", " ", text): every maximal run of whitespace becomes one space
RECURSIVE SubSpaces(_)
SubSpaces(s) ==
    IF s = <<>> THEN <<>>
    ELSE IF IsSpace(Head(s))
         THEN IF Len(s) > 1 /\ IsSpace(s[2])
              THEN SubSpaces(Tail(s))
              ELSE <<" ">> \o SubSpaces(Tail(s))
         ELSE <<Head(s)>> \o SubSpaces(Tail(s))

RECURSIVE lstrip(_)
lstrip(s) ==
    IF s # <<>> /\ IsSpace(Head(s)) THEN lstrip(Tail(s)) ELSE s

RECURSIVE rstrip(_)
rstrip(s) ==
    IF s # <<>> /\ IsSpace(s[Len(s)]) THEN rstrip(SubSeq(s, 1, Len(s) - 1)) ELSE s

\* str.strip()
strip(s) == rstrip(lstrip(s))

\* Python's  needle in haystack  on str
In(needle, haystack) ==
    \E i \in 0..(Len(haystack) - Len(needle)) :
        SubSeq(haystack, i + 1, i + Len(needle)) = needle

\* " ".join(parts)
RECURSIVE join(_)
join(parts) ==
    IF parts = <<>> THEN <<>>
    ELSE IF Len(parts) = 1 THEN parts[1]
    ELSE parts[1] \o <<" ">> \o join(Tail(parts))

\* all sequences over S of length at most n
SeqsUpTo(S, n) == UNION {[1..m -> S] : m \in 0..n}

(***************************************************************************)
(* query_understanding.py                                                  *)
(***************************************************************************)
\* strip applied before the substitutions instead of after them
normalize_text_stripfirst(text) ==
    SubSpaces(SubSpecials(strip(lower(text))))

normalize_text(text) ==
    strip(SubSpaces(SubSpecials(lower(text))))

\* the entries of an ordered dict, in declared order, as <<key, value>> pairs
\* (dictionary.items()); the first entry matching is the one returned
RECURSIVE FirstMatch(_, _)
FirstMatch(items, normalized_query) ==
    IF items = <<>> THEN None
    ELSE IF \E j \in 1..Len(items[1].data.intentions_utilisateur) :
                In(items[1].data.intentions_utilisateur[j], normalized_query)
         THEN items[1].key
         ELSE FirstMatch(Tail(items), normalized_query)

\* the last matching entry wins
RECURSIVE LastMatch(_, _)
LastMatch(items, normalized_query) ==
    IF items = <<>> THEN None
    ELSE LET rest == LastMatch(Tail(items), normalized_query)
         IN  IF rest # None THEN rest
             ELSE IF \E j \in 1..Len(items[1].data.intentions_utilisateur) :
                        In(items[1].data.intentions_utilisateur[j], normalized_query)
                  THEN items[1].key
                  ELSE None

detect_intention_last(query, dict) ==
    LastMatch(dict, normalize_text(query))

detect_intention(query, dict) ==
    FirstMatch(dict, normalize_text(query))

\* dict membership and lookup by key
HasKey(dict, key) == \E i \in 1..Len(dict) : dict[i].key = key

Lookup(dict, key) == dict[CHOOSE i \in 1..Len(dict) : dict[i].key = key].data

\* termes before concepts
enrich_query_swapped(query, intent_key, dict) ==
    IF ~HasKey(dict, intent_key) THEN [raised |-> "KeyError"]
    ELSE LET intent_data == Lookup(dict, intent_key)
             enriched_terms == intent_data.termes_juridiques_textes
                               \o intent_data.concepts_juridiques_centrals
         IN  [value |-> query \o <<" ">> \o join(enriched_terms)]

enrich_query(query, intent_key, dict) ==
    IF ~HasKey(dict, intent_key) THEN [raised |-> "KeyError"]
    ELSE LET intent_data == Lookup(dict, intent_key)
             enriched_terms == intent_data.concepts_juridiques_centrals
                               \o intent_data.termes_juridiques_textes
         IN  [value |-> query \o <<" ">> \o join(enriched_terms)]

\* the query handed back is the normalized one when nothing is detected
process_user_query_normalized(query, dict) ==
    LET intent == detect_intention(query, dict)
    IN  IF intent = None
        THEN [intent_detected |-> None,
              enriched_query |-> normalize_text(query),
              notes |-> "Aucune intention metier detectee"]
        ELSE [intent_detected |-> intent,
              enriched_query |-> enrich_query(query, intent, dict).value,
              codes_cibles |-> Lookup(dict, intent).codes_cibles,
              articles_cibles |-> Lookup(dict, intent).articles_cibles]

process_user_query(query, dict) ==
    LET intent == detect_intention(query, dict)
    IN  IF intent = None
        THEN [intent_detected |-> None,
              enriched_query |-> query,
              notes |-> "Aucune intention metier detectee"]
        ELSE [intent_detected |-> intent,
              enriched_query |-> enrich_query(query, intent, dict).value,
              codes_cibles |-> Lookup(dict, intent).codes_cibles,
              articles_cibles |-> Lookup(dict, intent).articles_cibles]

(***************************************************************************)
(* metrics.py                                                              *)
(***************************************************************************)
\* every keyword must occur (all instead of any)
is_relevant_all(document_text, relevant_keywords) ==
    LET text == lower(document_text)
    IN  \A n \in 1..Len(relevant_keywords) : In(lower(relevant_keywords[n]), text)

\* the document text is not lower-cased
is_relevant_rawtext(document_text, relevant_keywords) ==
    \E n \in 1..Len(relevant_keywords) : In(lower(relevant_keywords[n]), document_text)

is_relevant(document_text, relevant_keywords) ==
    LET text == lower(document_text)
    IN  \E n \in 1..Len(relevant_keywords) : In(lower(relevant_keywords[n]), text)

\* Python's  results[:k]  for any integer k: a negative k counts from the end
SliceTo(results, k) ==
    IF k >= 0
    THEN SubSeq(results, 1, IF k < Len(results) THEN k ELSE Len(results))
    ELSE SubSeq(results, 1, IF Len(results) + k > 0 THEN Len(results) + k ELSE 0)

\* for doc, _ in top_k: return 1 at the first relevant document
RECURSIVE RecallLoop(_, _)
RecallLoop(top_k, relevant_keywords) ==
    IF top_k = <<>> THEN 0
    ELSE IF is_relevant(top_k[1][1].text, relevant_keywords) THEN 1
    ELSE RecallLoop(Tail(top_k), relevant_keywords)

\* the whole list is scanned, k is ignored
recall_at_k_nowindow(results, relevant_keywords, k) ==
    RecallLoop(results, relevant_keywords)

recall_at_k(results, relevant_keywords, k) ==
    RecallLoop(SliceTo(results, k), relevant_keywords)

\* a number  num / den ; Python's int 0 is 0 / 1
Zero == [num |-> 0, den |-> 1]

\* for rank, (doc, _) in enumerate(rest, start=rank): return 1 / rank
RECURSIVE RankLoop(_, _, _)
RankLoop(rest, relevant_keywords, rank) ==
    IF rest = <<>> THEN Zero
    ELSE IF is_relevant(rest[1][1].text, relevant_keywords)
         THEN [num |-> 1, den |-> rank]
         ELSE RankLoop(Tail(rest), relevant_keywords, rank + 1)

\* the rank is counted one too far
reciprocal_rank_offbyone(results, relevant_keywords) ==
    RankLoop(results, relevant_keywords, 2)

reciprocal_rank(results, relevant_keywords) ==
    RankLoop(results, relevant_keywords, 1)

\* 1 / math.log2(i + 1) in fixed point: floor(10^6 / log2(i + 1))
Gain(i) ==
    CASE i = 1 -> 1000000
      [] i = 2 -> 630929
      [] i = 3 -> 500000
      [] i = 4 -> 430676
      [] i = 5 -> 386852
      [] i = 6 -> 356207
      [] i = 7 -> 333333
      [] i = 8 -> 315464
      [] i = 9 -> 301029
      [] i = 10 -> 289064

\* the first loop: <<dcg, len(relevances)>> after the documents from rank i on
RECURSIVE DcgLoop(_, _, _, _, _)
DcgLoop(rest, relevant_keywords, i, dcg, found) ==
    IF rest = <<>> THEN <<dcg, found>>
    ELSE IF is_relevant(rest[1][1].text, relevant_keywords)
         THEN DcgLoop(Tail(rest), relevant_keywords, i + 1, dcg + Gain(i), found + 1)
         ELSE DcgLoop(Tail(rest), relevant_keywords, i + 1, dcg, found)

\* the second loop: for i in range(1, n + 1): idcg += 1 / math.log2(i + 1)
RECURSIVE IdcgLoop(_, _, _)
IdcgLoop(i, n, idcg) ==
    IF i > n THEN idcg ELSE IdcgLoop(i + 1, n, idcg + Gain(i))

\* the ideal DCG is taken over the whole window instead of the documents found
ndcg_at_k_windowideal(results, relevant_keywords, k) ==
    LET top_k == SliceTo(results, k)
        acc == DcgLoop(top_k, relevant_keywords, 1, 0, 0)
    IN  IF acc[2] = 0
        THEN [num |-> 0, den |-> 1, divided |-> FALSE]
        ELSE [num |-> acc[1], den |-> IdcgLoop(1, Len(top_k), 0), divided |-> TRUE]

\* the whole list is scored, k is ignored
ndcg_at_k_nowindow(results, relevant_keywords, k) ==
    LET acc == DcgLoop(results, relevant_keywords, 1, 0, 0)
    IN  IF acc[2] = 0
        THEN [num |-> 0, den |-> 1, divided |-> FALSE]
        ELSE [num |-> acc[1], den |-> IdcgLoop(1, acc[2], 0), divided |-> TRUE]

ndcg_at_k(results, relevant_keywords, k) ==
    LET acc == DcgLoop(SliceTo(results, k), relevant_keywords, 1, 0, 0)
    IN  IF acc[2] = 0
        THEN [num |-> 0, den |-> 1, divided |-> FALSE]
        ELSE [num |-> acc[1], den |-> IdcgLoop(1, acc[2], 0), divided |-> TRUE]

(***************************************************************************)
(* The article-prefix oracle over BenchmarkQueryV2 (benchmark_queries_v2). *)
(***************************************************************************)
\* str.startswith
startswith(s, prefix) ==
    Len(prefix) <= Len(s) /\ SubSeq(s, 1, Len(prefix)) = prefix

\* meta.num of a document, empty when meta or num is absent
MetaNum(doc) ==
    IF "meta" \in DOMAIN doc /\ "num" \in DOMAIN doc.meta THEN doc.meta.num ELSE <<>>

is_relevant_v2(doc, bq) ==
    IF MetaNum(doc) # <<>>
    THEN \E n \in 1..Len(bq.relevant_num_prefixes) :
            startswith(MetaNum(doc), bq.relevant_num_prefixes[n])
    ELSE IF "relevant_keywords_fallback" \in DOMAIN bq
         THEN is_relevant(doc.text, bq.relevant_keywords_fallback)
         ELSE FALSE

(***************************************************************************)
(* Inputs: the dictionaries a YAML file can load and the queries.          *)
(***************************************************************************)
Queries == SeqsUpTo(Alphabet, MaxLen)

Keys == {"k1", "k2"}

\* intentions_utilisateur lists: none, a one-letter phrase (matches inside a
\* word), a phrase with a space, a phrase not in normalized form before one
\* that is
TriggerLists ==
    { <<>>,
      << <<"a">> >>,
      << <<"a", " ", "b">> >>,
      << <<"A">>, <<"b">> >> }

Concepts(key) ==
    IF key = "k1" THEN << <<"x">>, <<"y", "y">> >> ELSE <<>>

Termes(key) ==
    IF key = "k1" THEN << <<"z">> >> ELSE << <<"y", "y">>, <<"x">> >>

Entry(key, triggers) ==
    [key |-> key,
     data |-> [intentions_utilisateur |-> triggers,
               concepts_juridiques_centrals |-> Concepts(key),
               termes_juridiques_textes |-> Termes(key),
               codes_cibles |-> << <<"c">> \o <<key>> >>,
               articles_cibles |-> << <<"L">> \o <<key>> >>]]

\* a mapping has distinct keys
Dictionaries ==
    { d \in SeqsUpTo({Entry(k, t) : k \in Keys, t \in TriggerLists}, Cardinality(Keys)) :
        \A i, j \in 1..Len(d) : i # j => d[i].key # d[j].key }

\* document texts and keywords for the keyword oracle
TextAlphabet == {"a", "A", "b", "B"}

Texts == SeqsUpTo(TextAlphabet, MaxLen)

\* a two-letter keyword, an uppercase keyword, the empty keyword
KeywordPool == { <<"a", "b">>, <<"B">>, <<>> }

KeywordLists == SeqsUpTo(KeywordPool, MaxKeywords)

\* retrieved documents: a record with at least text
DocPool == { [text |-> <<"A", "b">>], [text |-> <<"b">>], [text |-> <<"a">>] }

Scores == {1, 2}

\* ranked results: (document, score) pairs, descending by score
ResultLists ==
    { r \in SeqsUpTo(DocPool \X Scores, MaxResults) :
        \A i \in 1..(Len(r) - 1) : r[i][2] >= r[i + 1][2] }

Windows == (0 - NegK)..MaxK

\* documents for the article-prefix oracle: meta and meta.num are optional
V2Docs ==
    LET texts == { <<"A", "b">>, <<"a">> }
        metas == { [titre |-> <<"t">>],
                   [num |-> <<>>],
                   [num |-> <<"L", "1", "2", "3", "4", "-", "3">>],
                   [num |-> <<"L", "1", "2", "3", "3">>] }
    IN  {[text |-> t] : t \in texts}
        \cup {[text |-> t, meta |-> m] : t \in texts, m \in metas}

PrefixPool == { <<"L", "1", "2", "3", "4">>, <<"L", "1", "2", "3", "3">>, <<"L", "2">> }

\* BenchmarkQueryV2; relevant_keywords_fallback = None is the field left out
V2Queries ==
    LET base == {[qid |-> "Q", question |-> <<"a">>, relevant_num_prefixes |-> ps] :
                    ps \in SeqsUpTo(PrefixPool, MaxKeywords)}
    IN  base \cup {[qid |-> b.qid, question |-> b.question,
                    relevant_num_prefixes |-> b.relevant_num_prefixes,
                    relevant_keywords_fallback |-> kws] :
                        b \in base, kws \in KeywordLists}

NoArgs == [none |-> TRUE]

(***************************************************************************)
(* The state machine: the dictionary is loaded at import, then calls.      *)
(***************************************************************************)
Init ==
    /\ dictionary \in Dictionaries
    /\ pc = "idle"
    /\ op = "none"
    /\ args = NoArgs
    /\ ret = NoArgs

Call_normalize_text ==
    /\ pc = "idle"
    /\ \E text \in Queries :
        /\ args' = [text |-> text]
        /\ ret' = normalize_text(text)
    /\ op' = "normalize_text"
    /\ pc' = "returned"
    /\ UNCHANGED dictionary

Call_detect_intention ==
    /\ pc = "idle"
    /\ \E query \in Queries :
        /\ args' = [query |-> query]
        /\ ret' = detect_intention(query, dictionary)
    /\ op' = "detect_intention"
    /\ pc' = "returned"
    /\ UNCHANGED dictionary

\* the vocabulary is built in place: concepts += termes on the entry's own list
Call_enrich_query_inplace ==
    /\ pc = "idle"
    /\ \E query \in Queries, intent_key \in Keys :
        /\ args' = [query |-> query, intent_key |-> intent_key]
        /\ ret' = enrich_query(query, intent_key, dictionary)
        /\ dictionary' =
            [i \in 1..Len(dictionary) |->
                IF dictionary[i].key = intent_key
                THEN [dictionary[i] EXCEPT !.data.concepts_juridiques_centrals =
                        @ \o dictionary[i].data.termes_juridiques_textes]
                ELSE dictionary[i]]
    /\ op' = "enrich_query"
    /\ pc' = "returned"

Call_enrich_query ==
    /\ pc = "idle"
    /\ \E query \in Queries, intent_key \in Keys :
        /\ args' = [query |-> query, intent_key |-> intent_key]
        /\ ret' = enrich_query(query, intent_key, dictionary)
    /\ op' = "enrich_query"
    /\ pc' = "returned"
    /\ UNCHANGED dictionary

Call_process_user_query ==
    /\ pc = "idle"
    /\ \E query \in Queries :
        /\ args' = [query |-> query]
        /\ ret' = process_user_query(query, dictionary)
    /\ op' = "process_user_query"
    /\ pc' = "returned"
    /\ UNCHANGED dictionary

\* the caller takes the returned value; the next call can start
Return ==
    /\ pc = "returned"
    /\ pc' = "idle"
    /\ op' = "none"
    /\ args' = NoArgs
    /\ ret' = NoArgs
    /\ UNCHANGED dictionary

Next ==
    \/ Call_normalize_text
    \/ Call_detect_intention
    \/ Call_enrich_query
    \/ Call_process_user_query
    \/ Return

Spec == Init /\ [][Next]_vars

(***************************************************************************)
(* The evaluation harness: calls of the oracles and the metrics.           *)
(***************************************************************************)
InitMetrics ==
    /\ dictionary = <<>>
    /\ pc = "idle"
    /\ op = "none"
    /\ args = NoArgs
    /\ ret = NoArgs

Call_is_relevant ==
    /\ pc = "idle"
    /\ \E document_text \in Texts, relevant_keywords \in KeywordLists :
        /\ args' = [document_text |-> document_text,
                    relevant_keywords |-> relevant_keywords]
        /\ ret' = is_relevant(document_text, relevant_keywords)
    /\ op' = "is_relevant"
    /\ pc' = "returned"
    /\ UNCHANGED dictionary

Call_is_relevant_v2 ==
    /\ pc = "idle"
    /\ \E doc \in V2Docs, bq \in V2Queries :
        /\ args' = [doc |-> doc, bq |-> bq]
        /\ ret' = is_relevant_v2(doc, bq)
    /\ op' = "is_relevant_v2"
    /\ pc' = "returned"
    /\ UNCHANGED dictionary

Call_recall_at_k ==
    /\ pc = "idle"
    /\ \E results \in ResultLists, relevant_keywords \in KeywordLists, k \in Windows :
        /\ args' = [results |-> results, relevant_keywords |-> relevant_keywords, k |-> k]
        /\ ret' = recall_at_k(results, relevant_keywords, k)
    /\ op' = "recall_at_k"
    /\ pc' = "returned"
    /\ UNCHANGED dictionary

Call_reciprocal_rank ==
    /\ pc = "idle"
    /\ \E results \in ResultLists, relevant_keywords \in KeywordLists :
        /\ args' = [results |-> results, relevant_keywords |-> relevant_keywords]
        /\ ret' = reciprocal_rank(results, relevant_keywords)
    /\ op' = "reciprocal_rank"
    /\ pc' = "returned"
    /\ UNCHANGED dictionary

Call_ndcg_at_k ==
    /\ pc = "idle"
    /\ \E results \in ResultLists, relevant_keywords \in KeywordLists, k \in Windows :
        /\ args' = [results |-> results, relevant_keywords |-> relevant_keywords, k |-> k]
        /\ ret' = ndcg_at_k(results, relevant_keywords, k)
    /\ op' = "ndcg_at_k"
    /\ pc' = "returned"
    /\ UNCHANGED dictionary

NextMetrics ==
    \/ Call_is_relevant
    \/ Call_is_relevant_v2
    \/ Call_recall_at_k
    \/ Call_reciprocal_rank
    \/ Call_ndcg_at_k
    \/ Return

SpecMetrics == InitMetrics /\ [][NextMetrics]_vars

(***************************************************************************)
(* corpus_loader_jsonl.py                                                  *)
(*                                                                         *)
(* A JSON value is a record tagged with its Python type; a dict carries    *)
(* its items in  fields , a record in which doc_id and text may be absent. *)
(* A line of a JSONL file is blank, not JSON, or the JSON value it holds.  *)
(***************************************************************************)
JStr(chars) == [type |-> "str", chars |-> chars]

JInt(n) == [type |-> "int", n |-> n]

JNull == [type |-> "null"]

JList == [type |-> "list"]

JDict(fields) == [type |-> "dict", fields |-> fields]

\* obj.get(key): None when the key is absent
Get(obj, key) ==
    IF key \in DOMAIN obj.fields THEN obj.fields[key] ELSE JNull

\* Python truthiness, as in  not doc_id
Truthy(v) ==
    CASE v.type = "null" -> FALSE
      [] v.type = "str" -> Len(v.chars) > 0
      [] v.type = "int" -> v.n # 0
      [] OTHER -> TRUE

\* isinstance(text, str)
IsStr(v) == v.type = "str"

\* the loop over the lines of the file; stops at the first exception
RECURSIVE JsonlLoop(_, _, _, _)
JsonlLoop(lines, min_text_len, limit_lines, chunks) ==
    IF lines = <<>> THEN [value |-> chunks]
    ELSE IF "n" \in DOMAIN limit_lines /\ Len(chunks) >= limit_lines.n
         THEN [value |-> chunks]
    ELSE LET line == lines[1]
             rest == Tail(lines)
         IN  IF line.raw = "blank"
             THEN JsonlLoop(rest, min_text_len, limit_lines, chunks)
             ELSE IF line.raw = "garbage"
             THEN JsonlLoop(rest, min_text_len, limit_lines, chunks)
             ELSE IF line.value.type # "dict"
             THEN [raised |-> "AttributeError"]
             ELSE LET doc_id == Get(line.value, "doc_id")
                      text == Get(line.value, "text")
                  IN  IF ~Truthy(doc_id) \/ ~IsStr(text)
                      THEN JsonlLoop(rest, min_text_len, limit_lines, chunks)
                      ELSE IF Len(text.chars) < min_text_len
                      THEN JsonlLoop(rest, min_text_len, limit_lines, chunks)
                      ELSE JsonlLoop(rest, min_text_len, limit_lines,
                                     Append(chunks, line.value))

load_documents_from_jsonl(jsonl_path, min_text_len, limit_lines) ==
    IF ~jsonl_path.exists THEN [raised |-> "FileNotFoundError"]
    ELSE JsonlLoop(jsonl_path.lines, min_text_len, limit_lines, <<>>)

\* the text nodes kept: elem.text / elem.tail that are not empty once stripped
RECURSIVE XmlParts(_)
XmlParts(nodes) ==
    IF nodes = <<>> THEN <<>>
    ELSE IF strip(nodes[1]) # <<>>
         THEN <<strip(nodes[1])>> \o XmlParts(Tail(nodes))
         ELSE XmlParts(Tail(nodes))

\* "" on ET.ParseError and on OSError
extract_text_from_xml(xml_file, remove_namespaces) ==
    IF xml_file.parse # "ok" THEN <<>>
    ELSE strip(SubSpaces(join(XmlParts(xml_file.nodes))))

\* name.lower().endswith(".xml")
IsXmlName(name) == name \in {"a.xml", "b.XML"}

\* the files yielded: those named *.xml, until count >= limit_files
RECURSIVE iter_xml_files(_, _, _)
iter_xml_files(files, limit_files, count) ==
    IF files = <<>> THEN <<>>
    ELSE IF ~IsXmlName(files[1].name)
         THEN iter_xml_files(Tail(files), limit_files, count)
         ELSE IF "n" \in DOMAIN limit_files /\ count + 1 >= limit_files.n
              THEN <<files[1]>>
              ELSE <<files[1]>> \o iter_xml_files(Tail(files), limit_files, count + 1)

RECURSIVE XmlLoop(_, _, _)
XmlLoop(xml_files, min_text_len, remove_namespaces) ==
    IF xml_files = <<>> THEN <<>>
    ELSE LET text == extract_text_from_xml(xml_files[1], remove_namespaces)
             rest == XmlLoop(Tail(xml_files), min_text_len, remove_namespaces)
         IN  IF text # <<>> /\ Len(text) >= min_text_len
             THEN <<JDict([doc_id |-> JStr(<<"r", "/", xml_files[1].name>>),
                           text |-> JStr(text)])>> \o rest
             ELSE rest

load_documents_from_xml(data_root, min_text_len, limit_files, remove_namespaces) ==
    [value |-> XmlLoop(iter_xml_files(data_root, limit_files, 0),
                       min_text_len, remove_namespaces)]

\* source.strip().lower()
SourceKey(source) ==
    CASE source \in {"xml", " XML "} -> "xml"
      [] source \in {"jsonl", "JSONL "} -> "jsonl"
      [] OTHER -> source

load_documents(source, path, min_text_len, limit, remove_namespaces) ==
    LET src == SourceKey(source)
    IN  IF src = "xml"
        THEN load_documents_from_xml(path, min_text_len, limit, remove_namespaces)
        ELSE IF src = "jsonl"
        THEN load_documents_from_jsonl(path, min_text_len, limit)
        ELSE [raised |-> "ValueError"]

(***************************************************************************)
(* Inputs of the loader: JSONL files, XML directories, thresholds.         *)
(***************************************************************************)
\* most lines of a JSONL file, most files of an XML directory
MaxLines == 2

\* largest min_text_len
MaxMinLen == 2

\* texts of a given length
XText(n) == [i \in 1..n |-> "x"]

DocIdValues == { JStr(<<>>), JStr(<<"d">>), JNull }

TextValues == { JInt(5) } \cup { JStr(XText(n)) : n \in 0..MaxLen }

\* the objects a line can hold: doc_id and text present or not
JsonObjects ==
    { JDict([none |-> TRUE]) }
    \cup { JDict([doc_id |-> d]) : d \in DocIdValues }
    \cup { JDict([text |-> t]) : t \in TextValues }
    \cup { JDict([doc_id |-> d, text |-> t]) : d \in DocIdValues, t \in TextValues }

JsonlLines ==
    { [raw |-> "blank"], [raw |-> "garbage"] }
    \cup { [raw |-> "json", value |-> v] : v \in {JList, JNull} \cup JsonObjects }

\* a path to a JSONL file: missing, or the lines of the file
JsonlPaths ==
    { [exists |-> FALSE] }
    \cup { [exists |-> TRUE, lines |-> ls] : ls \in SeqsUpTo(JsonlLines, MaxLines) }

\* the text nodes of a parsed XML file, in the order root.iter() meets them
NodeLists ==
    { <<>>,
      << <<" ">> >>,
      << <<"x">> >>,
      << <<" ", "x">>, <<>>, <<"x", " ", "\t", "x">> >> }

XmlFiles ==
    { [name |-> n, parse |-> p, nodes |-> <<>>] :
        n \in {"b.XML", "c.txt"}, p \in {"ParseError", "OSError"} }
    \cup { [name |-> n, parse |-> "ok", nodes |-> ns] :
            n \in {"b.XML", "c.txt"}, ns \in NodeLists }

\* a directory, as the files os.walk meets in it (none when it is missing)
XmlRoots == SeqsUpTo(XmlFiles, MaxLines)

\* limit: None or a number
Limits == { [none |-> TRUE], [n |-> 0], [n |-> 1] }

Sources == { "xml", " XML ", "jsonl", "JSONL ", "csv" }

PathsFor(source) ==
    IF SourceKey(source) = "xml" THEN XmlRoots
    ELSE IF SourceKey(source) = "jsonl" THEN JsonlPaths
    ELSE { [exists |-> FALSE] }

(***************************************************************************)
(* The corpus loader: calls of load_documents.                             *)
(***************************************************************************)
InitLoader ==
    /\ dictionary = <<>>
    /\ pc = "idle"
    /\ op = "none"
    /\ args = NoArgs
    /\ ret = NoArgs

Call_load_documents ==
    /\ pc = "idle"
    /\ \E source \in Sources, min_text_len \in 0..MaxMinLen, limit \in Limits,
          remove_namespaces \in BOOLEAN :
        \E path \in PathsFor(source) :
            /\ args' = [source |-> source, path |-> path,
                        min_text_len |-> min_text_len, limit |-> limit,
                        remove_namespaces |-> remove_namespaces]
            /\ ret' = load_documents(source, path, min_text_len, limit,
                                     remove_namespaces)
    /\ op' = "load_documents"
    /\ pc' = "returned"
    /\ UNCHANGED dictionary

NextLoader ==
    \/ Call_load_documents
    \/ Return

SpecLoader == InitLoader /\ [][NextLoader]_vars

(***************************************************************************)
(* Properties.  Occurrence of a phrase is stated position by position,     *)
(* independently of the slicing the operators above use.                   *)
(***************************************************************************)
\* p occurs in s as a contiguous run of characters, anywhere
OccursIn(p, s) ==
    \E off \in 0..Len(s) :
        /\ off + Len(p) <= Len(s)
        /\ \A m \in 1..Len(p) : s[off + m] = p[m]

\* the entries of dict with a trigger phrase occurring in the normalized query
MatchingEntries(query, dict) ==
    { i \in 1..Len(dict) :
        \E j \in 1..Len(dict[i].data.intentions_utilisateur) :
            OccursIn(dict[i].data.intentions_utilisateur[j], normalize_text(query)) }

\* C1: when no trigger phrase of any entry occurs in normalize_text(query),
\* process_user_query returns intent_detected = None and enriched_query equal
\* to the original, non-normalized query.
C1_NoTriggerKeepsQuery ==
    (pc = "returned" /\ op = "process_user_query"
        /\ MatchingEntries(args.query, dictionary) = {})
    => (ret.intent_detected = None /\ ret.enriched_query = args.query)

\* a query that normalization changes, against two entries that both have
\* trigger phrases, none of them occurring
C1_Witness ==
    /\ pc = "returned" /\ op = "process_user_query"
    /\ Len(dictionary) = 2
    /\ \A i \in 1..2 : dictionary[i].data.intentions_utilisateur # <<>>
    /\ MatchingEntries(args.query, dictionary) = {}
    /\ normalize_text(args.query) # args.query
    /\ normalize_text(args.query) # <<>>
    /\ ret.enriched_query = args.query

\* C2: detect_intention returns the key of the first entry, in declared order,
\* with a trigger phrase occurring literally in normalize_text(query), and None
\* exactly when no entry has one.
C2_FirstMatchWins ==
    (pc = "returned" /\ op = "detect_intention")
    => LET M == MatchingEntries(args.query, dictionary)
       IN  /\ (ret = None) <=> (M = {})
           /\ M # {} => \E i \in M : /\ ret = dictionary[i].key
                                     /\ \A j \in M : i <= j

\* two entries match, both inside a word, and the first one is returned
C2_Witness ==
    /\ pc = "returned" /\ op = "detect_intention"
    /\ Cardinality(MatchingEntries(args.query, dictionary)) = 2
    /\ normalize_text(args.query) = <<"a", "b">>
    /\ normalize_text(args.query) # args.query
    /\ ret = dictionary[1].key

RECURSIVE SumLen(_)
SumLen(terms) ==
    IF terms = <<>> THEN 0 ELSE Len(terms[1]) + SumLen(Tail(terms))

\* C3: for an intent key present in the dictionary, enrich_query returns the
\* original query verbatim, one space, then the concepts followed by the
\* termes, in stored order, separated by single spaces and nothing else.
C3_EnrichAppendsVocabulary ==
    (pc = "returned" /\ op = "enrich_query"
        /\ \E i \in 1..Len(dictionary) : dictionary[i].key = args.intent_key)
    => LET i == CHOOSE n \in 1..Len(dictionary) : dictionary[n].key = args.intent_key
           terms == dictionary[i].data.concepts_juridiques_centrals
                    \o dictionary[i].data.termes_juridiques_textes
           n == Len(terms)
           q == args.query
           at(k) == Len(q) + 1 + SumLen(SubSeq(terms, 1, k - 1)) + (k - 1)
       IN  /\ "value" \in DOMAIN ret
           /\ Len(ret.value) = Len(q) + 1 + SumLen(terms) + (IF n > 0 THEN n - 1 ELSE 0)
           /\ \A m \in 1..Len(q) : ret.value[m] = q[m]
           /\ ret.value[Len(q) + 1] = " "
           /\ \A k \in 1..n :
                /\ \A m \in 1..Len(terms[k]) : ret.value[at(k) + m] = terms[k][m]
                /\ k > 1 => ret.value[at(k)] = " "

\* a non-normalized query enriched with two concepts and one terme
C3_Witness ==
    /\ pc = "returned" /\ op = "enrich_query"
    /\ \E i \in 1..Len(dictionary) :
        /\ dictionary[i].key = args.intent_key
        /\ Len(dictionary[i].data.concepts_juridiques_centrals) = 2
        /\ Len(dictionary[i].data.termes_juridiques_textes) = 1
    /\ Len(args.query) = MaxLen
    /\ normalize_text(args.query) # args.query
    /\ "value" \in DOMAIN ret

\* C4: normalize_text is idempotent: normalizing its result changes nothing.
C4_NormalizeIdempotent ==
    (pc = "returned" /\ op = "normalize_text") => normalize_text(ret) = ret

\* a text that normalization changes in case, in a special character and in
\* leading whitespace
C4_Witness ==
    /\ pc = "returned" /\ op = "normalize_text"
    /\ Len(args.text) = MaxLen
    /\ IsSpace(args.text[1])
    /\ \E m \in 1..Len(args.text) : args.text[m] = "A"
    /\ \E m \in 1..Len(args.text) : args.text[m] = "-"
    /\ ret = <<"a">>

\* whether the i-th ranked result is judged relevant
Rel(results, relevant_keywords, i) ==
    is_relevant(results[i][1].text, relevant_keywords)

\* C5: on an empty ranked list or with k < 1, recall_at_k returns 0,
\* reciprocal_rank returns 0 on an empty list, and ndcg_at_k returns 0.
C5_DegenerateInputsGiveZero ==
    pc = "returned" =>
        /\ (op = "recall_at_k" /\ (args.results = <<>> \/ args.k < 1)) => ret = 0
        /\ (op = "reciprocal_rank" /\ args.results = <<>>) => ret = Zero
        /\ (op = "ndcg_at_k" /\ (args.results = <<>> \/ args.k < 1)) => ret.num = 0

\* what the code does give on degenerate inputs: 0 on an empty list and for
\* k = 0 (a negative k is a window counted from the end of the list)
EmptyWindowGivesZero ==
    pc = "returned" =>
        /\ (op = "recall_at_k" /\ (args.results = <<>> \/ args.k = 0)) => ret = 0
        /\ (op = "reciprocal_rank" /\ args.results = <<>>) => ret = Zero
        /\ (op = "ndcg_at_k" /\ (args.results = <<>> \/ args.k = 0))
            => ret = [num |-> 0, den |-> 1, divided |-> FALSE]

\* s starts with p, position by position
HasPrefix(s, p) ==
    Len(p) <= Len(s) /\ \A m \in 1..Len(p) : s[m] = p[m]

\* kw occurs in text once both are lower-cased
OccursLowered(kw, text) ==
    \E off \in 0..Len(text) :
        /\ off + Len(kw) <= Len(text)
        /\ \A m \in 1..Len(kw) : LowerChar(text[off + m]) = LowerChar(kw[m])

\* C6: the article-prefix oracle judges a document with a non-empty meta.num
\* relevant exactly when meta.num starts with one of relevant_num_prefixes;
\* without meta.num it gives the keyword oracle's judgment over
\* relevant_keywords_fallback when that is provided and not relevant otherwise;
\* the judgment is always a boolean.
C6_ArticlePrefixOracle ==
    (pc = "returned" /\ op = "is_relevant_v2")
    => LET doc == args.doc
           bq == args.bq
           hasNum == /\ "meta" \in DOMAIN doc
                     /\ "num" \in DOMAIN doc.meta
                     /\ Len(doc.meta.num) > 0
       IN  /\ ret \in BOOLEAN
           /\ hasNum =>
                (ret <=> \E n \in 1..Len(bq.relevant_num_prefixes) :
                            HasPrefix(doc.meta.num, bq.relevant_num_prefixes[n]))
           /\ (~hasNum /\ "relevant_keywords_fallback" \in DOMAIN bq) =>
                (ret <=> \E n \in 1..Len(bq.relevant_keywords_fallback) :
                            OccursLowered(bq.relevant_keywords_fallback[n], doc.text))
           /\ (~hasNum /\ "relevant_keywords_fallback" \notin DOMAIN bq) => ret = FALSE

\* a document without meta.num judged relevant through the fallback keywords,
\* none of its article prefixes being consulted
C6_Witness ==
    /\ pc = "returned" /\ op = "is_relevant_v2"
    /\ "meta" \in DOMAIN args.doc /\ "num" \notin DOMAIN args.doc.meta
    /\ Len(args.bq.relevant_num_prefixes) = 2
    /\ "relevant_keywords_fallback" \in DOMAIN args.bq
    /\ args.bq.relevant_keywords_fallback = << <<"a", "b">>, <<"B">> >>
    /\ args.doc.text = <<"A", "b">>
    /\ ret = TRUE

\* every score replaced by the same one
Rescored(results) == [i \in 1..Len(results) |-> <<results[i][1], 0>>]

\* C7: is_relevant is true exactly when some keyword, lower-cased, occurs in
\* the lower-cased document text (so never for an empty keyword list); the
\* metrics built on it do not change when the scores of the results change.
C7_KeywordOracle ==
    pc = "returned" =>
        /\ op = "is_relevant" =>
            (ret <=> \E n \in 1..Len(args.relevant_keywords) :
                        OccursLowered(args.relevant_keywords[n], args.document_text))
        /\ op = "recall_at_k" =>
            ret = recall_at_k(Rescored(args.results), args.relevant_keywords, args.k)
        /\ op = "reciprocal_rank" =>
            ret = reciprocal_rank(Rescored(args.results), args.relevant_keywords)
        /\ op = "ndcg_at_k" =>
            ret = ndcg_at_k(Rescored(args.results), args.relevant_keywords, args.k)

\* the first keyword does not occur; the second matches only because it is
\* lower-cased
C7_Witness ==
    /\ pc = "returned" /\ op = "is_relevant"
    /\ args.relevant_keywords = << <<"a", "b">>, <<"B">> >>
    /\ args.document_text = <<"b", "A">>
    /\ ret = TRUE

\* C8: reciprocal_rank is 1/r for r the position of the first relevant result
\* anywhere in the list, and 0 when no result of the list is relevant.
C8_ReciprocalRankFullList ==
    (pc = "returned" /\ op = "reciprocal_rank")
    => LET R == { i \in 1..Len(args.results) :
                    Rel(args.results, args.relevant_keywords, i) }
       IN  IF R = {} THEN ret = Zero
           ELSE /\ ret.num = 1
                /\ ret.den \in R
                /\ \A i \in R : ret.den <= i
                /\ 1 <= ret.den /\ ret.den <= Len(args.results)

\* the only relevant result is the last of the longest list
C8_Witness ==
    /\ pc = "returned" /\ op = "reciprocal_rank"
    /\ Len(args.results) = MaxResults
    /\ \A i \in 1..(MaxResults - 1) : ~Rel(args.results, args.relevant_keywords, i)
    /\ Rel(args.results, args.relevant_keywords, MaxResults)
    /\ ret = [num |-> 1, den |-> MaxResults]

\* C9: for k >= 1, recall_at_k is 1 when one of the first k results is
\* relevant and 0 otherwise; a relevant result beyond k does not count.
C9_RecallWindow ==
    (pc = "returned" /\ op = "recall_at_k" /\ args.k >= 1)
    => /\ ret \in {0, 1}
       /\ (ret = 1) <=> \E i \in 1..Len(args.results) :
                            i <= args.k /\ Rel(args.results, args.relevant_keywords, i)

\* a relevant result right after the window: recall is 0
C9_Witness ==
    /\ pc = "returned" /\ op = "recall_at_k"
    /\ args.k >= 1 /\ args.k < Len(args.results)
    /\ Rel(args.results, args.relevant_keywords, args.k + 1)
    /\ ret = 0

RECURSIVE SumGain(_)
SumGain(S) ==
    IF S = {} THEN 0
    ELSE LET i == CHOOSE x \in S : TRUE IN Gain(i) + SumGain(S \ {i})

\* C10: for k >= 1, ndcg_at_k is DCG / IDCG, DCG the sum of the gains at the
\* positions i <= k of the relevant results and IDCG the sum of the gains at
\* 1..(number of them); it lies in [0, 1]; with no relevant result in the
\* first k it is 0 and nothing is divided.
C10_NdcgIsDcgOverIdcg ==
    (pc = "returned" /\ op = "ndcg_at_k" /\ args.k >= 1)
    => LET R == { i \in 1..Len(args.results) :
                    i <= args.k /\ Rel(args.results, args.relevant_keywords, i) }
       IN  IF R = {}
           THEN ret = [num |-> 0, den |-> 1, divided |-> FALSE]
           ELSE /\ ret.divided
                /\ ret.num = SumGain(R)
                /\ ret.den = SumGain(1..Cardinality(R))
                /\ 0 <= ret.num /\ ret.num <= ret.den

\* the relevant result at rank 2 of a window of two: 0.6309
C10_Witness ==
    /\ pc = "returned" /\ op = "ndcg_at_k"
    /\ args.k = 2 /\ Len(args.results) = MaxResults
    /\ ~Rel(args.results, args.relevant_keywords, 1)
    /\ Rel(args.results, args.relevant_keywords, 2)
    /\ ret = [num |-> 630929, den |-> 1000000, divided |-> TRUE]

\* C11: the loaded dictionary is read-only: no call of detect_intention,
\* enrich_query or process_user_query, with or without a detected intent,
\* changes any entry of it (keys, trigger phrases, concepts, termes,
\* codes_cibles, articles_cibles), in any sequence of calls; a call leaves
\* nothing behind but its returned value.
C11_DictionaryReadOnly == [][dictionary' = dictionary]_vars

\* a call of process_user_query that detected an intent and read the entry's
\* lists, on a dictionary of two entries
C11_Witness ==
    /\ pc = "returned" /\ op = "process_user_query"
    /\ Len(dictionary) = 2
    /\ ret.intent_detected = dictionary[2].key
    /\ ret.codes_cibles = dictionary[2].data.codes_cibles
    /\ Len(ret.enriched_query) > Len(args.query) + 1

\* C13: the three metrics agree on the same ranked list and keywords: for
\* k >= 1, recall_at_k is 1 exactly when ndcg_at_k is positive, and then
\* reciprocal_rank is at least 1/k; for every k, a reciprocal_rank of 0 goes
\* with a recall_at_k of 0 and an ndcg_at_k of 0.
C13_MetricsAgree ==
    (pc = "returned" /\ op = "recall_at_k")
    => LET rr == reciprocal_rank(args.results, args.relevant_keywords)
           ndcg == ndcg_at_k(args.results, args.relevant_keywords, args.k)
       IN  /\ args.k >= 1 =>
                /\ (ret = 1) <=> (ndcg.num > 0)
                /\ ret = 1 => (rr.num = 1 /\ rr.den <= args.k)
           /\ rr.num = 0 => (ret = 0 /\ ndcg.num = 0)

\* the first relevant result sits exactly at rank k, with another result
\* after the window: recall 1, reciprocal rank 1/k, nDCG below 1
C13_Witness ==
    /\ pc = "returned" /\ op = "recall_at_k"
    /\ args.k = 2 /\ Len(args.results) = MaxResults
    /\ ret = 1
    /\ reciprocal_rank(args.results, args.relevant_keywords) = [num |-> 1, den |-> 2]
    /\ ndcg_at_k(args.results, args.relevant_keywords, args.k).num = 630929

\* a returned record has a non-empty doc_id and a str text of at least
\* min_text_len characters
WellFormedRecord(rec, min_text_len) ==
    /\ rec.type = "dict"
    /\ "doc_id" \in DOMAIN rec.fields
    /\ rec.fields.doc_id.type = "str" => Len(rec.fields.doc_id.chars) > 0
    /\ rec.fields.doc_id.type # "null"
    /\ "text" \in DOMAIN rec.fields
    /\ rec.fields.text.type = "str"
    /\ Len(rec.fields.text.chars) >= min_text_len

\* C12: load_documents for source 'xml' or 'jsonl', on a directory or an
\* existing file, returns a list (no error surfaces, whatever malformed
\* records the input holds) and every record of it has a non-empty doc_id and
\* a str text of at least min_text_len characters.
C12_LoaderDropsMalformedSilently ==
    (pc = "returned" /\ op = "load_documents"
        /\ SourceKey(args.source) \in {"xml", "jsonl"}
        /\ (SourceKey(args.source) = "jsonl" => args.path.exists))
    => /\ "value" \in DOMAIN ret
       /\ \A i \in 1..Len(ret.value) : WellFormedRecord(ret.value[i], args.min_text_len)

\* what the loader does guarantee: the records of a returned list are well
\* formed, and the only error on an existing input is the AttributeError of
\* a line holding JSON that is not an object
LoaderReturnedRecordsWellFormed ==
    (pc = "returned" /\ op = "load_documents")
    => /\ "value" \in DOMAIN ret =>
            \A i \in 1..Len(ret.value) : WellFormedRecord(ret.value[i], args.min_text_len)
       /\ ("raised" \in DOMAIN ret /\ ret.raised = "AttributeError") =>
            \E i \in 1..Len(args.path.lines) :
                /\ args.path.lines[i].raw = "json"
                /\ args.path.lines[i].value.type # "dict"
       /\ ("raised" \in DOMAIN ret /\ SourceKey(args.source) = "xml") => FALSE

====
